---- MODULE Spec2Model ----
(***************************************************************************)
(* Model of src-tauri/src/main.rs: the availability probe                  *)
(* (check_python_available), the synchronous invoker (send_to_python) and  *)
(* the streaming invoker (send_to_python_stream), together with the child  *)
(* process, its two pipes and the script file they act on.                 *)
(*                                                                         *)
(* Bytes are numbers 0..255, text is a sequence of Unicode code points.    *)
(* A line of child output is a record: either free text (json = FALSE,     *)
(* bytes in raw) or a JSON object (json = TRUE) whose members are given by *)
(* obj, a function from the member names the two serde structs know to a   *)
(* JSON value [t, v]; t is the JSON type ("absent" when the member is not  *)
(* there), v the bytes of a string or <<1>>/<<0>> for true/false.  extra   *)
(* says whether the object has members neither struct knows.               *)
(***************************************************************************)
EXTENDS Integers, Sequences, FiniteSets, TLC

\* ---------------------------------------------------------------- bounds
MaxLines == 3       \* most lines a streaming child writes to stdout
MaxSyncLines == 2   \* most lines a synchronous child writes to stdout
MaxErr == 2         \* most bytes a child writes to stderr
MaxConcLines == 2   \* most lines a child of two overlapping invocations writes
StdoutCap == 2      \* lines the stdout pipe holds before a write blocks
StderrCap == 1      \* bytes the stderr pipe holds before a write blocks

BSeq(S, n) == UNION {[1..k -> S] : k \in 0..n}

\* ------------------------------------------------------- UTF-8 conversion
\* The bytes the model writes: ASCII, the two bytes of U+00E9, and 255,
\* which occurs in no UTF-8 encoding.
ReplacementChar == 65533

IsAscii(b) == b < 128

\* String::from_utf8_lossy: every maximal invalid part becomes U+FFFD.
RECURSIVE Utf8Lossy(_)
Utf8Lossy(bs) ==
    IF bs = <<>> THEN <<>>
    ELSE IF IsAscii(bs[1]) THEN <<bs[1]>> \o Utf8Lossy(Tail(bs))
    ELSE IF bs[1] = 195 /\ Len(bs) >= 2 /\ bs[2] = 169
         THEN <<233>> \o Utf8Lossy(Tail(Tail(bs)))
    ELSE <<ReplacementChar>> \o Utf8Lossy(Tail(bs))

\* String::from_utf8 succeeds (used by tokio's read_line).
RECURSIVE IsValidUtf8(_)
IsValidUtf8(bs) ==
    IF bs = <<>> THEN TRUE
    ELSE IF IsAscii(bs[1]) THEN IsValidUtf8(Tail(bs))
    ELSE IF bs[1] = 195 /\ Len(bs) >= 2 /\ bs[2] = 169
         THEN IsValidUtf8(Tail(Tail(bs)))
    ELSE FALSE

\* The UTF-8 encoding of a text (what the text says, as bytes).
RECURSIVE Utf8Encode(_)
Utf8Encode(cs) ==
    IF cs = <<>> THEN <<>>
    ELSE (IF cs[1] < 128 THEN <<cs[1]>>
          ELSE IF cs[1] = 233 THEN <<195, 169>>
          ELSE <<239, 191, 189>>) \o Utf8Encode(Tail(cs))

\* ------------------------------------------------------------ JSON values
Keys == {"type", "content", "success", "message", "error"}

Absent == [t |-> "absent", v |-> <<>>]
Null == [t |-> "null", v |-> <<>>]
Str(bs) == [t |-> "str", v |-> bs]
Bool(b) == [t |-> "bool", v |-> IF b THEN <<1>> ELSE <<0>>]

Obj(members, extra) ==
    [json |-> TRUE, raw |-> <<>>, extra |-> extra,
     obj |-> [k \in Keys |-> IF k \in DOMAIN members THEN members[k] ELSE Absent]]
Text(bs) ==
    [json |-> FALSE, raw |-> bs, extra |-> FALSE, obj |-> [k \in Keys |-> Absent]]

\* "content", "done", "error", "hi", "a" and two strings with non-ASCII bytes
SContent == <<99, 111, 110, 116, 101, 110, 116>>
SDone == <<100, 111, 110, 101>>
SError == <<101, 114, 114, 111, 114>>
SHi == <<104, 105>>
SAccent == <<195, 169>>
SBroken == <<104, 255>>

\* The lines a child writes to stdout.
LContent == Obj([type |-> Str(SContent), content |-> Str(SAccent), error |-> Null], FALSE)
LDone == Obj([type |-> Str(SDone), success |-> Bool(TRUE), message |-> Str(SHi)], TRUE)
LReply == Obj([success |-> Bool(TRUE), message |-> Str(SHi)], FALSE)
LMistyped == Obj([type |-> Str(SContent), success |-> Str(SHi)], FALSE)
LBrokenUtf8 == Obj([type |-> Str(SError), success |-> Bool(FALSE), error |-> Str(SBroken)], FALSE)
LGarbage == Text(SHi)

LineSamples == {LContent, LDone, LReply, LMistyped, LBrokenUtf8, LGarbage}

\* The bytes a child writes to stderr.
ErrBytes == {97, 195, 169}

\* ---------------------------------------------------------------- decoding
None == [some |-> FALSE, v |-> <<>>]
Some(x) == [some |-> TRUE, v |-> x]

\* A line's bytes are valid UTF-8.
LineIsUtf8(l) == IsValidUtf8(l.raw) /\ \A k \in Keys : IsValidUtf8(l.obj[k].v)

\* The line as text: strings become code points (lossily; exact when valid).
LineText(l) ==
    [json |-> l.json, raw |-> Utf8Lossy(l.raw), extra |-> l.extra,
     obj |-> [k \in Keys |->
                 IF l.obj[k].t = "str"
                    THEN [t |-> "str", v |-> Utf8Lossy(l.obj[k].v)]
                    ELSE l.obj[k]]]

\* serde: Option<String> and Option<bool> take a missing member or null as None.
IsOptStr(val) == val.t \in {"absent", "null", "str"}
IsOptBool(val) == val.t \in {"absent", "null", "bool"}
OptOfDropped(val) == None

OptOf(val) == IF val.t \in {"absent", "null"} THEN None ELSE Some(val.v)

\* serde_json::from_str::<StreamChunk>(&line)
ParseStreamChunk(tl) ==
    [ok |-> tl.json /\ tl.obj["type"].t = "str" /\ IsOptStr(tl.obj["content"])
                /\ IsOptBool(tl.obj["success"]) /\ IsOptStr(tl.obj["error"]),
     chunk |-> [chunk_type |-> tl.obj["type"].v,
                content |-> OptOf(tl.obj["content"]),
                success |-> OptOf(tl.obj["success"]),
                error |-> OptOf(tl.obj["error"])]]

NoResponse == [success |-> FALSE, message |-> None, error |-> None]

\* serde_json::from_str::<ChatResponse>(&stdout): the whole of stdout has to
\* be one JSON value, so no line or more than one line fails.
ParseChatResponseOptionalSuccess(tls) ==
    LET ok == Len(tls) = 1 /\ tls[1].json
              /\ tls[1].obj["success"].t \in {"absent", "bool"}
              /\ IsOptStr(tls[1].obj["message"]) /\ IsOptStr(tls[1].obj["error"])
    IN [ok |-> ok,
        resp |-> IF ok
                 THEN [success |-> tls[1].obj["success"].v = <<1>>,
                       message |-> OptOf(tls[1].obj["message"]),
                       error |-> OptOf(tls[1].obj["error"])]
                 ELSE NoResponse]

ParseChatResponse(tls) ==
    LET ok == Len(tls) = 1 /\ tls[1].json /\ tls[1].obj["success"].t = "bool"
              /\ IsOptStr(tls[1].obj["message"]) /\ IsOptStr(tls[1].obj["error"])
    IN [ok |-> ok,
        resp |-> IF ok
                 THEN [success |-> tls[1].obj["success"].v = <<1>>,
                       message |-> OptOf(tls[1].obj["message"]),
                       error |-> OptOf(tls[1].obj["error"])]
                 ELSE NoResponse]

\* ------------------------------------------------------------------ state
VARIABLES
    scriptExists,   \* python/chat_handler.py is on disk
    op,             \* the command called: "none", "probe", "sync", "stream"
    pc,             \* where the command is: "idle", "spawn", "output", "read",
                    \* "decode", "wait", "done"
    ret,            \* what the command returned (NoRet until it returns)
    probe,          \* what the probe's `python --version` process did
    spawnCount,     \* children the invoker has spawned
    child,          \* "none", "running", "exited" (not yet waited for), "reaped"
    prog,           \* what the child does: stdout lines, stderr bytes, exit code
    outPos, errPos, \* how much of prog the child has written
    exitCode,       \* the exit status of the child, -1 until it exits
    outPipe, errPipe, \* written by the child, not yet read by the parent
    pipesOpen,      \* the parent still holds the read ends
    capOut, capErr, \* Output.stdout and Output.stderr collected by output()
    cur,            \* the line returned by next_line()
    emitted,        \* the chunks the window has accepted, oldest first
    sinkRejected,   \* window.emit has returned an error
    ioFault,        \* reading the pipe or waiting for the child has failed
    invs,           \* overlapping streaming invocations: the locals of each
    pipes,          \* the stdout pipe of each overlapping invocation's child
    window          \* what the window they share has accepted, oldest first

\* The state of the overlapping invocations (see "overlapping invocations").
concVars == <<invs, pipes, window>>

vars == <<scriptExists, op, pc, ret, probe, spawnCount, child, prog, outPos,
          errPos, exitCode, outPipe, errPipe, pipesOpen, capOut, capErr, cur,
          emitted, sinkRejected, ioFault, concVars>>

ExitCodes == {0, 1}

NoRet == [ok |-> FALSE, kind |-> "none", text |-> <<>>, resp |-> NoResponse, flag |-> FALSE]
Err(kind, text) == [ok |-> FALSE, kind |-> kind, text |-> text, resp |-> NoResponse, flag |-> FALSE]
OkUnit == [ok |-> TRUE, kind |-> "unit", text |-> <<>>, resp |-> NoResponse, flag |-> FALSE]
OkFlag(b) == [ok |-> TRUE, kind |-> "bool", text |-> <<>>, resp |-> NoResponse, flag |-> b]
OkResponse(r) == [ok |-> TRUE, kind |-> "response", text |-> <<>>, resp |-> r, flag |-> FALSE]

NoProg == [lines |-> <<>>, err |-> <<>>, code |-> 0, unterminated |-> FALSE]
NoLine == LineText(Text(<<>>))
NoProbe == [started |-> FALSE, code |-> -1]

\* What a spawned interpreter can do.  The streaming invoker never reads
\* stderr, so there only the amount written matters.  With the script gone
\* the interpreter writes a complaint to stderr and exits non-zero.
StderrChoices(mode) ==
    IF mode = "sync" THEN BSeq(ErrBytes, MaxErr)
    ELSE {[i \in 1..k |-> 97] : k \in 0..MaxErr}

\* unterminated: the last stdout line has no newline after it.  It matters
\* to a reader of lines only (serde_json takes a payload with or without
\* the newline), so it is left FALSE for the synchronous invoker.
Programs(mode, exists) ==
    IF exists
    THEN {p \in [lines : BSeq(LineSamples, IF mode = "sync" THEN MaxSyncLines ELSE MaxLines),
                 err : StderrChoices(mode), code : ExitCodes, unterminated : BOOLEAN] :
             p.unterminated => (mode = "stream" /\ p.lines # <<>>)}
    ELSE [lines : {<<>>}, err : StderrChoices(mode) \ {<<>>}, code : ExitCodes \ {0},
          unterminated : {FALSE}]

Procs == {1, 2}

IdleInv == [pc |-> "spawn", ret |-> "none", child |-> "none", lines |-> <<>>,
            pos |-> 0, taken |-> 0, cur |-> NoLine]

Init ==
    /\ invs = [i \in Procs |-> IdleInv]
    /\ pipes = [i \in Procs |-> <<>>]
    /\ window = <<>>
    /\ scriptExists \in BOOLEAN
    /\ op = "none" /\ pc = "idle" /\ ret = NoRet /\ probe = NoProbe
    /\ spawnCount = 0 /\ child = "none" /\ prog = NoProg
    /\ outPos = 0 /\ errPos = 0 /\ exitCode = -1
    /\ outPipe = <<>> /\ errPipe = <<>> /\ pipesOpen = FALSE
    /\ capOut = <<>> /\ capErr = <<>> /\ cur = NoLine
    /\ emitted = <<>> /\ sinkRejected = FALSE /\ ioFault = FALSE

childVars == <<child, prog, outPos, errPos, exitCode, outPipe, errPipe, pipesOpen>>
syncVars == <<capOut, capErr>>
streamVars == <<cur, emitted, sinkRejected, ioFault>>

\* --------------------------------------------------- check_python_available
ProbeResultStrict(started, code) ==
    IF started THEN OkFlag(code = 0) ELSE Err("ProcessSpawnFailed", <<>>)

ProbeResult(started, code) == OkFlag(started /\ code = 0)

ProbeCall ==
    /\ pc = "idle"
    /\ \E started \in BOOLEAN, code \in ExitCodes :
          /\ probe' = [started |-> started, code |-> IF started THEN code ELSE -1]
          /\ ret' = ProbeResult(started, code)
    /\ op' = "probe" /\ pc' = "done"
    /\ UNCHANGED <<concVars, scriptExists, spawnCount, childVars, syncVars, streamVars>>

\* ------------------------------------------------------------ script path
\* Lines 44-58 and 87-101: resolve the path (current_dir() in a debug build
\* can fail), then test that the file exists.
ResolveNoCheck(debug, cwdOk, exists) ==
    IF debug /\ ~cwdOk THEN Err("CurrentDirFailed", <<>>)
    ELSE NoRet

Resolve(debug, cwdOk, exists) ==
    IF debug /\ ~cwdOk THEN Err("CurrentDirFailed", <<>>)
    ELSE IF ~exists THEN Err("ScriptNotFound", <<>>)
    ELSE NoRet

Call(mode) ==
    /\ pc = "idle"
    /\ op' = mode
    /\ \E debug \in BOOLEAN, cwdOk \in BOOLEAN :
          /\ ret' = Resolve(debug, cwdOk, scriptExists)
          /\ pc' = IF ret' = NoRet THEN "spawn" ELSE "done"
    /\ UNCHANGED <<concVars, scriptExists, probe, spawnCount, childVars, syncVars, streamVars>>

\* The file is removed between the test and the spawn.
RemoveScript ==
    /\ pc = "spawn" /\ scriptExists
    /\ scriptExists' = FALSE
    /\ UNCHANGED <<concVars, op, pc, ret, probe, spawnCount, childVars, syncVars, streamVars>>

\* Command::output() at 61-65, Command::spawn() at 104-110.
SpawnFail(mode) ==
    /\ pc = "spawn" /\ op = mode
    /\ ret' = Err("ProcessSpawnFailed", <<>>) /\ pc' = "done"
    /\ UNCHANGED <<concVars, scriptExists, op, probe, spawnCount, childVars, syncVars, streamVars>>

\* Where the invoker goes once the child runs: output() collects the pipes
\* (61-65), the streaming invoker enters the read loop (119-123).
AfterSpawnWaitFirst(mode) == IF mode = "sync" THEN "output" ELSE "wait"

AfterSpawnRetry(mode) == "spawn"

AfterSpawn(mode) == IF mode = "sync" THEN "output" ELSE "read"

Spawn(mode) ==
    /\ pc = "spawn" /\ op = mode
    /\ \E p \in Programs(mode, scriptExists) : prog' = p
    /\ child' = "running" /\ spawnCount' = spawnCount + 1 /\ pipesOpen' = TRUE
    /\ pc' = AfterSpawn(mode)
    /\ UNCHANGED <<concVars, scriptExists, op, ret, probe, outPos, errPos, exitCode,
                   outPipe, errPipe, syncVars, streamVars>>

\* -------------------------------------------------------------- the child
invokerVars == <<scriptExists, op, pc, ret, probe, spawnCount, syncVars, streamVars>>

ChildWriteStdout ==
    /\ child = "running" /\ pipesOpen
    /\ outPos < Len(prog.lines) /\ Len(outPipe) < StdoutCap
    /\ outPipe' = Append(outPipe, prog.lines[outPos + 1])
    /\ outPos' = outPos + 1
    /\ UNCHANGED <<concVars, invokerVars, child, prog, errPos, exitCode, errPipe, pipesOpen>>

ChildWriteStderr ==
    /\ child = "running" /\ pipesOpen
    /\ errPos < Len(prog.err) /\ Len(errPipe) < StderrCap
    /\ errPipe' = Append(errPipe, prog.err[errPos + 1])
    /\ errPos' = errPos + 1
    /\ UNCHANGED <<concVars, invokerVars, child, prog, outPos, exitCode, outPipe, pipesOpen>>

\* A write after the parent has dropped the read ends fails (EPIPE) and the
\* interpreter exits with status 1.
ChildBrokenPipe ==
    /\ child = "running" /\ ~pipesOpen
    /\ outPos < Len(prog.lines) \/ errPos < Len(prog.err)
    /\ child' = "exited" /\ exitCode' = 1
    /\ UNCHANGED <<concVars, invokerVars, prog, outPos, errPos, outPipe, errPipe, pipesOpen>>

ChildExit ==
    /\ child = "running"
    /\ outPos = Len(prog.lines) /\ errPos = Len(prog.err)
    /\ child' = "exited" /\ exitCode' = prog.code
    /\ UNCHANGED <<concVars, invokerVars, prog, outPos, errPos, outPipe, errPipe, pipesOpen>>

\* ----------------------------------------------------------- send_to_python
\* output() reads both pipes to their end and then waits for the child.
SyncReadStdout ==
    /\ op = "sync" /\ pc = "output" /\ outPipe # <<>>
    /\ capOut' = Append(capOut, Head(outPipe)) /\ outPipe' = Tail(outPipe)
    /\ UNCHANGED <<concVars, scriptExists, op, pc, ret, probe, spawnCount, child, prog, outPos,
                   errPos, exitCode, errPipe, pipesOpen, capErr, streamVars>>

SyncReadStderr ==
    /\ op = "sync" /\ pc = "output" /\ errPipe # <<>>
    /\ capErr' = Append(capErr, Head(errPipe)) /\ errPipe' = Tail(errPipe)
    /\ UNCHANGED <<concVars, scriptExists, op, pc, ret, probe, spawnCount, child, prog, outPos,
                   errPos, exitCode, outPipe, pipesOpen, capOut, streamVars>>

MapLines(f(_), ls) == [i \in 1..Len(ls) |-> f(ls[i])]

\* Lines 67-75.
SyncResultRawStderr(code, out, err) ==
    IF code = 0
    THEN LET p == ParseChatResponse(MapLines(LineText, out))
         IN IF p.ok THEN OkResponse(p.resp) ELSE Err("DecodeFailed", <<>>)
    ELSE Err("ProcessExecutionFailed", err)

SyncResult(code, out, err) ==
    IF code = 0
    THEN LET p == ParseChatResponse(MapLines(LineText, out))
         IN IF p.ok THEN OkResponse(p.resp) ELSE Err("DecodeFailed", <<>>)
    ELSE Err("ProcessExecutionFailed", Utf8Lossy(err))

SyncFinish ==
    /\ op = "sync" /\ pc = "output"
    /\ child = "exited" /\ outPipe = <<>> /\ errPipe = <<>>
    /\ child' = "reaped" /\ pipesOpen' = FALSE
    /\ ret' = SyncResult(exitCode, capOut, capErr)
    /\ pc' = "done"
    /\ UNCHANGED <<concVars, scriptExists, op, probe, spawnCount, prog, outPos, errPos,
                   exitCode, outPipe, errPipe, syncVars, streamVars>>

\* ---------------------------------------------------- send_to_python_stream
\* child.stdout.take() at 113-116 is always Some: line 107 asks for a pipe.
\* Returning drops `lines` and `child`; kill_on_drop is not set, so the drop
\* closes the read ends and leaves the process as it is.
StreamReturn(r) ==
    /\ ret' = r /\ pc' = "done" /\ pipesOpen' = FALSE

\* lines.next_line() fails with an I/O error (line 123).
StreamReadFault ==
    /\ op = "stream" /\ pc = "read"
    /\ ioFault' = TRUE
    /\ StreamReturn(Err("StreamReadError", <<>>))
    /\ UNCHANGED <<concVars, scriptExists, op, probe, spawnCount, child, prog, outPos, errPos,
                   exitCode, outPipe, errPipe, syncVars, cur, emitted, sinkRejected>>

\* lines.next_line() has a line (line 123): read_line turns its bytes into a
\* String and fails with InvalidData when they are not UTF-8.
NextLine(l) == [ok |-> LineIsUtf8(l), text |-> LineText(l)]

\* The line at the head of the pipe is the last one and has no newline:
\* read_line returns it only when the child has closed stdout, and Lines
\* hands it out like any other line.
HeadUnterminated ==
    prog.unterminated /\ outPos = Len(prog.lines) /\ Len(outPipe) = 1

NextLineAtStrict(l, unterminated) ==
    IF unterminated THEN [ok |-> FALSE, text |-> LineText(l)] ELSE NextLine(l)

NextLineAt(l, unterminated) == NextLine(l)

StreamNextLine ==
    /\ op = "stream" /\ pc = "read" /\ outPipe # <<>>
    /\ HeadUnterminated => child = "exited"
    /\ outPipe' = Tail(outPipe)
    /\ LET n == NextLineAt(Head(outPipe), HeadUnterminated)
       IN IF n.ok
          THEN /\ cur' = n.text /\ pc' = "decode"
               /\ UNCHANGED <<ret, pipesOpen>>
          ELSE /\ StreamReturn(Err("StreamReadError", <<>>))
               /\ UNCHANGED cur
    /\ UNCHANGED <<concVars, scriptExists, op, probe, spawnCount, child, prog, outPos, errPos,
                   exitCode, errPipe, syncVars, emitted, sinkRejected, ioFault>>

\* lines.next_line() returns None: the child has closed stdout (it does so
\* by exiting) and the pipe is empty.  The loop ends.
EndOfInputEarly == outPipe = <<>>

EndOfInput == outPipe = <<>> /\ child = "exited"

StreamEof ==
    /\ op = "stream" /\ pc = "read" /\ EndOfInput
    /\ pc' = "wait"
    /\ UNCHANGED <<concVars, scriptExists, op, ret, probe, spawnCount, childVars, syncVars,
                   streamVars>>

\* Lines 124-128: a line that does not parse is skipped.
StreamSkip ==
    /\ op = "stream" /\ pc = "decode" /\ ~ParseStreamChunk(cur).ok
    /\ pc' = "read"
    /\ UNCHANGED <<concVars, scriptExists, op, ret, probe, spawnCount, childVars, syncVars,
                   streamVars>>

\* window.emit("stream-chunk", &chunk) succeeds.
EmitFront(sink, chunk) == <<chunk>> \o sink

EmitTwice(sink, chunk) == sink \o <<chunk, chunk>>

Emit(sink, chunk) == Append(sink, chunk)

StreamEmit ==
    /\ op = "stream" /\ pc = "decode" /\ ParseStreamChunk(cur).ok
    /\ emitted' = Emit(emitted, ParseStreamChunk(cur).chunk)
    /\ pc' = "read"
    /\ UNCHANGED <<concVars, scriptExists, op, ret, probe, spawnCount, childVars, syncVars,
                   cur, sinkRejected, ioFault>>

\* window.emit fails: `?` at line 127 returns the error.
EmitFailOutcomeSwallowed == [pc |-> "read", ret |-> NoRet]

EmitFailOutcome == [pc |-> "done", ret |-> Err("SinkDeliveryError", <<>>)]

StreamEmitFail ==
    /\ op = "stream" /\ pc = "decode" /\ ParseStreamChunk(cur).ok
    /\ sinkRejected' = TRUE
    /\ ret' = EmitFailOutcome.ret /\ pc' = EmitFailOutcome.pc
    /\ pipesOpen' = (pipesOpen /\ pc' # "done")
    /\ UNCHANGED <<concVars, scriptExists, op, probe, spawnCount, child, prog, outPos, errPos,
                   exitCode, outPipe, errPipe, syncVars, cur, emitted, ioFault>>

\* child.wait() at line 131, then Ok(()) at 133: the status is not looked at.
WaitResultChecked(code) ==
    IF code = 0 THEN OkUnit ELSE Err("ProcessExecutionFailed", <<>>)

WaitResult(code) == OkUnit

StreamWait ==
    /\ op = "stream" /\ pc = "wait" /\ child = "exited"
    /\ child' = "reaped"
    /\ StreamReturn(WaitResult(exitCode))
    /\ UNCHANGED <<concVars, scriptExists, op, probe, spawnCount, prog, outPos, errPos,
                   exitCode, outPipe, errPipe, syncVars, streamVars>>

\* child.wait() fails (map_err and `?` at line 131).
StreamWaitFault ==
    /\ op = "stream" /\ pc = "wait"
    /\ ioFault' = TRUE
    /\ StreamReturn(Err("WaitFailed", <<>>))
    /\ UNCHANGED <<concVars, scriptExists, op, probe, spawnCount, child, prog, outPos, errPos,
                   exitCode, outPipe, errPipe, syncVars, cur, emitted, sinkRejected>>

\* A child dropped unwaited is reaped by the runtime some time after it
\* exits, outside the invocation.
OrphanReap ==
    /\ op = "stream" /\ pc = "done" /\ child = "exited"
    /\ child' = "reaped"
    /\ UNCHANGED <<concVars, invokerVars, prog, outPos, errPos, exitCode, outPipe, errPipe,
                   pipesOpen>>

\* ------------------------------------------------------------------- Next
SyncCall == Call("sync")
StreamCall == Call("stream")
SyncSpawnFail == SpawnFail("sync")
StreamSpawnFail == SpawnFail("stream")
SyncSpawn == Spawn("sync")
StreamSpawn == Spawn("stream")

Next ==
    \/ ProbeCall
    \/ SyncCall
    \/ StreamCall
    \/ RemoveScript
    \/ SyncSpawnFail
    \/ StreamSpawnFail
    \/ SyncSpawn
    \/ StreamSpawn
    \/ ChildWriteStdout
    \/ ChildWriteStderr
    \/ ChildBrokenPipe
    \/ ChildExit
    \/ SyncReadStdout
    \/ SyncReadStderr
    \/ SyncFinish
    \/ StreamReadFault
    \/ StreamNextLine
    \/ StreamEof
    \/ StreamSkip
    \/ StreamEmit
    \/ StreamEmitFail
    \/ StreamWait
    \/ StreamWaitFault
    \/ OrphanReap

Spec == Init /\ [][Next]_vars

TypeOK ==
    /\ scriptExists \in BOOLEAN
    /\ op \in {"none", "probe", "sync", "stream"}
    /\ pc \in {"idle", "spawn", "output", "read", "decode", "wait", "done"}
    /\ child \in {"none", "running", "exited", "reaped"}
    /\ spawnCount \in 0..1
    /\ outPos \in 0..Len(prog.lines) /\ errPos \in 0..Len(prog.err)
    /\ Len(outPipe) <= StdoutCap /\ Len(errPipe) <= StderrCap
    /\ (pc = "done") = (ret # NoRet)

\* -------------------------------------------------- overlapping invocations
\* Two calls of send_to_python_stream in flight on the same window, each from
\* its spawn (line 104) to its return.  Everything a call works on is a
\* local of the call (child, stdout, lines); the window is the one thing the
\* two share.  An entry of window records which call emitted it.  stderr is
\* left out: the calls never touch it.
soloVars == <<scriptExists, op, pc, ret, probe, spawnCount, child, prog, outPos,
              errPos, exitCode, outPipe, errPipe, pipesOpen, capOut, capErr, cur,
              emitted, sinkRejected, ioFault>>

ConcLineSamples == {LContent, LDone, LGarbage}

\* The pipe call i reads: the stdout of the child it spawned (113-120).
PipeOfShared(i) == 1

PipeOf(i) == i

\* Call i still holds the read end of its child's stdout.
ConcOpen(i) == invs[i].pc \in {"read", "decode", "wait"}

ConcSpawnFail(i) ==
    /\ invs[i].pc = "spawn"
    /\ invs' = [invs EXCEPT ![i].pc = "done", ![i].ret = "ProcessSpawnFailed"]
    /\ UNCHANGED <<soloVars, pipes, window>>

ConcSpawn(i) ==
    /\ invs[i].pc = "spawn"
    /\ \E ls \in BSeq(ConcLineSamples, MaxConcLines) :
          invs' = [invs EXCEPT ![i].pc = AfterSpawn("stream"),
                               ![i].child = "running", ![i].lines = ls]
    /\ UNCHANGED <<soloVars, pipes, window>>

ConcChildWrite(i) ==
    /\ invs[i].child = "running" /\ ConcOpen(i)
    /\ invs[i].pos < Len(invs[i].lines) /\ Len(pipes[i]) < StdoutCap
    /\ pipes' = [pipes EXCEPT ![i] = Append(@, invs[i].lines[invs[i].pos + 1])]
    /\ invs' = [invs EXCEPT ![i].pos = @ + 1]
    /\ UNCHANGED <<soloVars, window>>

\* The child exits when it has written everything, or on the first write
\* after its reader has gone.
ConcChildExit(i) ==
    /\ invs[i].child = "running"
    /\ invs[i].pos = Len(invs[i].lines) \/ ~ConcOpen(i)
    /\ invs' = [invs EXCEPT ![i].child = "exited"]
    /\ UNCHANGED <<soloVars, pipes, window>>

ConcNextLine(i) ==
    /\ invs[i].pc = "read" /\ pipes[PipeOf(i)] # <<>>
    /\ pipes' = [pipes EXCEPT ![PipeOf(i)] = Tail(@)]
    /\ LET n == NextLine(Head(pipes[PipeOf(i)]))
       IN IF n.ok
          THEN invs' = [invs EXCEPT ![i].pc = "decode", ![i].cur = n.text,
                                    ![i].taken = @ + 1]
          ELSE invs' = [invs EXCEPT ![i].pc = "done", ![i].ret = "StreamReadError",
                                    ![i].taken = @ + 1]
    /\ UNCHANGED <<soloVars, window>>

ConcEof(i) ==
    /\ invs[i].pc = "read" /\ pipes[PipeOf(i)] = <<>> /\ invs[i].child = "exited"
    /\ invs' = [invs EXCEPT ![i].pc = "wait"]
    /\ UNCHANGED <<soloVars, pipes, window>>

ConcSkip(i) ==
    /\ invs[i].pc = "decode" /\ ~ParseStreamChunk(invs[i].cur).ok
    /\ invs' = [invs EXCEPT ![i].pc = "read"]
    /\ UNCHANGED <<soloVars, pipes, window>>

ConcEmit(i) ==
    /\ invs[i].pc = "decode" /\ ParseStreamChunk(invs[i].cur).ok
    /\ window' = Emit(window, [from |-> i, chunk |-> ParseStreamChunk(invs[i].cur).chunk])
    /\ invs' = [invs EXCEPT ![i].pc = "read"]
    /\ UNCHANGED <<soloVars, pipes>>

ConcEmitFail(i) ==
    /\ invs[i].pc = "decode" /\ ParseStreamChunk(invs[i].cur).ok
    /\ invs' = [invs EXCEPT ![i].pc = EmitFailOutcome.pc,
                            ![i].ret = EmitFailOutcome.ret.kind]
    /\ UNCHANGED <<soloVars, pipes, window>>

ConcWait(i) ==
    /\ invs[i].pc = "wait" /\ invs[i].child = "exited"
    /\ invs' = [invs EXCEPT ![i].pc = "done", ![i].child = "reaped",
                            ![i].ret = WaitResult(0).kind]
    /\ UNCHANGED <<soloVars, pipes, window>>

InitConc == Init /\ scriptExists

NextConc ==
    \E i \in Procs :
        \/ ConcSpawnFail(i)
        \/ ConcSpawn(i)
        \/ ConcChildWrite(i)
        \/ ConcChildExit(i)
        \/ ConcNextLine(i)
        \/ ConcEof(i)
        \/ ConcSkip(i)
        \/ ConcEmit(i)
        \/ ConcEmitFail(i)
        \/ ConcWait(i)

SpecConc == InitConc /\ [][NextConc]_vars

\* =================================================================== claims
\* What the stream contract asks of a line: a JSON object, in UTF-8, with a
\* string `type` and, when present, a string `content`, a boolean `success`
\* and a string `error`.
WellFormedLine(l) ==
    /\ l.json /\ LineIsUtf8(l)
    /\ l.obj["type"].t = "str"
    /\ l.obj["content"].t \in {"absent", "null", "str"}
    /\ l.obj["success"].t \in {"absent", "null", "bool"}
    /\ l.obj["error"].t \in {"absent", "null", "str"}

AllWellFormed(ls) == \A i \in 1..Len(ls) : WellFormedLine(ls[i])
AllUtf8(ls) == \A i \in 1..Len(ls) : LineIsUtf8(ls[i])

\* An optional member as delivered says what the line's member said.
CarriesStr(o, val) ==
    IF val.t = "str" THEN o.some /\ Utf8Encode(o.v) = val.v ELSE o = None
CarriesBool(o, val) ==
    IF val.t = "bool" THEN o.some /\ o.v = val.v ELSE o = None

\* The unit u is the line l, member for member.
Carries(u, l) ==
    /\ Utf8Encode(u.chunk_type) = l.obj["type"].v
    /\ CarriesStr(u.content, l.obj["content"])
    /\ CarriesBool(u.success, l.obj["success"])
    /\ CarriesStr(u.error, l.obj["error"])

\* The units us are the lines ls, one for one and in order.
CarriesAll(us, ls) ==
    /\ Len(us) = Len(ls)
    /\ \A i \in 1..Len(ls) : Carries(us[i], ls[i])

StreamSpawned == op = "stream" /\ spawnCount = 1
StreamReturned == StreamSpawned /\ pc = "done"
NoFault == ~sinkRejected /\ ~ioFault

\* C1: a streaming child that writes N well-formed lines and exits 0, with no
\* I/O failure and a sink that accepts: at every moment the sink holds the
\* units of the first lines, in order; the call returns only once the child
\* has been waited for, and then with Ok(()) and all N units delivered.
C1_InOrderDelivery ==
    (StreamSpawned /\ AllWellFormed(prog.lines) /\ prog.code = 0) =>
        /\ Len(emitted) <= Len(prog.lines)
        /\ CarriesAll(emitted, SubSeq(prog.lines, 1, Len(emitted)))
        /\ (pc = "done" /\ NoFault) =>
              /\ ret = OkUnit
              /\ CarriesAll(emitted, prog.lines)
              /\ child = "reaped" /\ exitCode = 0

C1_Witness ==
    /\ StreamReturned /\ ret = OkUnit /\ exitCode = 0
    /\ prog.lines = <<LContent, LDone, LContent>>
    /\ Len(emitted) = 3 /\ emitted[1] # emitted[2]

\* C2 (as claimed): whenever send_to_python_stream has returned after
\* spawning, its child has been waited for (or killed).
C2_AwaitedBeforeReturn ==
    StreamReturned => child = "reaped"

\* C3 (as claimed): for any stdout lines, with no I/O failure and a sink that
\* accepts, the call returns Ok(()) and the sink holds exactly the decodable
\* lines, in order.
C3_OnlyUndecodableDropped ==
    (StreamReturned /\ NoFault) =>
        /\ ret = OkUnit
        /\ CarriesAll(emitted, SelectSeq(prog.lines, WellFormedLine))

\* C4 (as claimed): a synchronous child that exits non-zero makes the call
\* fail with ProcessExecutionFailed, with no ChatResponse, and the text of
\* the error is stderr byte for byte.
C4_ExactStderr ==
    (op = "sync" /\ pc = "done" /\ spawnCount = 1 /\ exitCode # 0) =>
        /\ ~ret.ok /\ ret.kind = "ProcessExecutionFailed" /\ ret.resp = NoResponse
        /\ Utf8Encode(ret.text) = prog.err

\* C4 (amended): a synchronous child that exits non-zero makes the call fail
\* with ProcessExecutionFailed, with no ChatResponse whatever stdout holds;
\* the text of the error is all of stderr read as UTF-8 with every invalid
\* byte replaced by U+FFFD, so it is stderr byte for byte exactly when stderr
\* is valid UTF-8.
C4_LossyStderr ==
    (op = "sync" /\ pc = "done" /\ spawnCount = 1 /\ exitCode # 0) =>
        /\ ~ret.ok /\ ret.kind = "ProcessExecutionFailed" /\ ret.resp = NoResponse
        /\ ret.text = Utf8Lossy(prog.err)
        /\ (Utf8Encode(ret.text) = prog.err) = IsValidUtf8(prog.err)
        /\ (ReplacementChar \in {ret.text[i] : i \in 1..Len(ret.text)})
              = ~IsValidUtf8(prog.err)

C4_Witness ==
    /\ op = "sync" /\ pc = "done" /\ exitCode = 1
    /\ prog.lines = <<LReply>> /\ prog.err = <<97, 195>>
    /\ ret = Err("ProcessExecutionFailed", <<97, ReplacementChar>>)

\* C5: with no read failure, no wait failure and a sink that accepts, a
\* streaming call returns Ok(()) once the child has exited, and the sink
\* holds the well-formed lines of stdout in order: the same for every exit
\* status.
C5_ExitCodeIgnored ==
    (StreamReturned /\ NoFault /\ AllUtf8(prog.lines)) =>
        /\ ret = OkUnit
        /\ exitCode \in ExitCodes
        /\ CarriesAll(emitted, SelectSeq(prog.lines, WellFormedLine))

C5_Witness ==
    /\ StreamReturned /\ exitCode = 1 /\ ret = OkUnit
    /\ prog.lines = <<LContent, LDone>> /\ Len(emitted) = 2

\* What the sync contract asks of stdout: one JSON object with a boolean
\* `success` and, when present, a string `message` and a string `error`.
WellFormedPayload(ls) ==
    /\ Len(ls) = 1 /\ ls[1].json
    /\ ls[1].obj["success"].t = "bool"
    /\ ls[1].obj["message"].t \in {"absent", "null", "str"}
    /\ ls[1].obj["error"].t \in {"absent", "null", "str"}

SyncExitedZero == op = "sync" /\ pc = "done" /\ spawnCount = 1 /\ exitCode = 0

\* C6: a synchronous child that writes a well-formed payload in UTF-8 and
\* exits 0 makes the call return a ChatResponse with the payload's success,
\* message and error (None for a missing one), after one spawn.
C6_SyncSuccess ==
    /\ spawnCount <= 1
    /\ (SyncExitedZero /\ WellFormedPayload(prog.lines) /\ AllUtf8(prog.lines)) =>
          /\ ret.ok /\ ret.kind = "response"
          /\ ret.resp.success = (prog.lines[1].obj["success"].v = <<1>>)
          /\ CarriesStr(ret.resp.message, prog.lines[1].obj["message"])
          /\ CarriesStr(ret.resp.error, prog.lines[1].obj["error"])

C6_Witness ==
    /\ SyncExitedZero /\ prog.lines = <<LReply>>
    /\ ret = OkResponse([success |-> TRUE, message |-> Some(SHi), error |-> None])

\* C7: a synchronous child that exits 0 with a stdout that is not one
\* well-formed payload (a missing `success` included) makes the call fail
\* with DecodeFailed and no ChatResponse; a well-formed payload is accepted
\* with or without members the struct does not know.
C7_DecodeFailed ==
    SyncExitedZero =>
        IF WellFormedPayload(prog.lines)
        THEN ret.ok
        ELSE ret = Err("DecodeFailed", <<>>)

C7_Witness ==
    /\ SyncExitedZero /\ prog.lines = <<LContent>>
    /\ ret = Err("DecodeFailed", <<>>)

\* C8: the probe returns Ok(true) when the interpreter started and exited
\* with success, and Ok(false), never an error, otherwise.
C8_ProbeNeverFails ==
    (op = "probe" /\ pc = "done") =>
        /\ ret.ok /\ ret.kind = "bool"
        /\ ret.flag = (probe.started /\ probe.code = 0)

C8_Witness ==
    op = "probe" /\ pc = "done" /\ ~probe.started /\ ret = OkFlag(FALSE)

\* C9: a call of either invoker that resolves the script path and finds no
\* file there returns ScriptNotFound at once; a call that has returned
\* ScriptNotFound has spawned nothing and delivered nothing, and never will.
C9_ScriptNotFound ==
    /\ [][(pc = "idle" /\ op' \in {"sync", "stream"} /\ ~scriptExists
             /\ ret'.kind # "CurrentDirFailed")
          => (ret' = Err("ScriptNotFound", <<>>) /\ pc' = "done")]_vars
    /\ [](ret.kind = "ScriptNotFound"
             => (pc = "done" /\ spawnCount = 0 /\ child = "none" /\ emitted = <<>>))

C9_Witness ==
    op = "stream" /\ pc = "done" /\ ~scriptExists /\ ret.kind = "ScriptNotFound"

\* C10: once window.emit has failed the call has returned an error, and the
\* sink holds what it held before the failed emit, for good.
C10_SinkFailureSurfaces ==
    /\ [](sinkRejected => (pc = "done" /\ ~ret.ok /\ ret.kind = "SinkDeliveryError"))
    /\ [][sinkRejected' => emitted' = emitted]_vars

C10_Witness ==
    /\ sinkRejected /\ Len(emitted) = 1 /\ outPos = 3
    /\ ret = Err("SinkDeliveryError", <<>>)

\* The stdout lines the streaming invoker has taken out of the pipe.
LinesRead == SubSeq(prog.lines, 1, outPos - Len(outPipe))

\* C11: while the streaming invoker waits for the exit status, the child has
\* written all its stdout, the pipe is empty, no line is in hand, and every
\* well-formed line is with the sink.
C11_DrainBeforeWait ==
    (op = "stream" /\ pc = "wait") =>
        /\ outPos = Len(prog.lines) /\ outPipe = <<>>
        /\ LinesRead = prog.lines
        /\ CarriesAll(emitted, SelectSeq(prog.lines, WellFormedLine))

C11_Witness ==
    /\ op = "stream" /\ pc = "wait"
    /\ prog.lines = <<LContent, LGarbage, LDone>> /\ Len(emitted) = 2

\* C12 (as claimed): the streaming invoker is never waiting for a stdout line
\* that cannot come because the child is blocked writing stderr into a full
\* pipe that nobody reads.
C12_NoPipeDeadlock ==
    ~ /\ op = "stream" /\ pc = "read" /\ outPipe = <<>>
      /\ child = "running" /\ outPos = Len(prog.lines)
      /\ errPos < Len(prog.err) /\ Len(errPipe) = StderrCap

\* The states of an invocation as the specification names them.
Phase ==
    IF op \notin {"none", "stream"} THEN "Other"
    ELSE IF pc = "idle" THEN "NotStarted"
    ELSE IF pc = "spawn" THEN "Spawned"
    ELSE IF pc \in {"read", "decode"}
         THEN (IF child = "running" THEN "Streaming" ELSE "Draining")
    ELSE IF pc = "wait" THEN "Exited"
    ELSE IF ret.ok THEN "Completed" ELSE "Failed"

ClaimedMoves ==
    {<<"NotStarted", "Spawned">>, <<"Spawned", "Streaming">>,
     <<"Streaming", "Draining">>, <<"Draining", "Exited">>,
     <<"Exited", "Completed">>, <<"Spawned", "Failed">>}

\* C13 (as claimed): a streaming invocation moves only along NotStarted ->
\* Spawned -> Streaming -> Draining -> Exited -> Completed; it fails only
\* from Spawned, or from Streaming or Draining on a read error.
C13_ClaimedStateMachine ==
    [][(Phase' # "Other" /\ Phase' # Phase) =>
          \/ <<Phase, Phase'>> \in ClaimedMoves
          \/ /\ Phase \in {"Streaming", "Draining"} /\ Phase' = "Failed"
             /\ ret'.kind = "StreamReadError"]_vars

\* C13 (amended): as claimed, and besides an invocation fails from
\* NotStarted when the path cannot be resolved or the script is not there,
\* from Streaming or Draining when the sink rejects a unit, and from Exited
\* when waiting for the child fails.  Completed is reached from Exited only,
\* and nothing leaves Completed or Failed.
C13_StateMachine ==
    [][(Phase' # "Other" /\ Phase' # Phase) =>
          \/ <<Phase, Phase'>> \in ClaimedMoves
          \/ /\ Phase = "NotStarted" /\ Phase' = "Failed"
             /\ ret'.kind \in {"CurrentDirFailed", "ScriptNotFound"}
          \/ /\ Phase \in {"Streaming", "Draining"} /\ Phase' = "Failed"
             /\ ret'.kind \in {"StreamReadError", "SinkDeliveryError"}
          \/ /\ Phase = "Exited" /\ Phase' = "Failed"
             /\ ret'.kind = "WaitFailed"]_vars

C13_Witness ==
    /\ Phase = "Completed" /\ exitCode = 1
    /\ prog.lines = <<LDone>> /\ Len(emitted) = 1

\* C14: whenever the streaming invoker asks for the next line or waits for
\* the child, the sink holds one unit for each well-formed line read so far,
\* in order; while a line is in hand it holds the units of the lines before.
C14_UnitPerLineAtOnce ==
    /\ (op = "stream" /\ pc \in {"read", "wait"}) =>
          CarriesAll(emitted, SelectSeq(LinesRead, WellFormedLine))
    /\ (op = "stream" /\ pc = "decode") =>
          CarriesAll(emitted,
                     SelectSeq(SubSeq(LinesRead, 1, Len(LinesRead) - 1), WellFormedLine))

C14_Witness ==
    /\ op = "stream" /\ pc = "read" /\ child = "running"
    /\ prog.lines = <<LDone, LContent, LDone>>
    /\ outPos = 2 /\ Len(outPipe) = 1 /\ Len(emitted) = 1

\* The script was there when the call tested for it and was removed before
\* the interpreter was started.
RemovedBeforeSpawn ==
    /\ op \in {"sync", "stream"} /\ ~scriptExists
    /\ pc # "idle" /\ ret.kind \notin {"CurrentDirFailed", "ScriptNotFound"}

\* C16 (as claimed): a call whose script is removed between the test and the
\* spawn returns ProcessSpawnFailed and nothing else (reading, waiting and
\* the sink never failing).
C16_RaceIsSpawnFailure ==
    (RemovedBeforeSpawn /\ pc = "done" /\ NoFault)
        => ret = Err("ProcessSpawnFailed", <<>>)

\* C18: an invocation never has a second child: at most one spawn is counted,
\* a child exists exactly when one was spawned, and a call that has returned,
\* with whatever result, spawns nothing more.
C18_SingleSpawn ==
    /\ [](spawnCount <= 1 /\ (child = "none") = (spawnCount = 0))
    /\ [][pc = "done" => (spawnCount' = spawnCount /\ pc' = "done")]_vars

C18_Witness ==
    /\ op = "sync" /\ pc = "done" /\ spawnCount = 1 /\ child = "reaped"
    /\ ret.kind = "ProcessExecutionFailed" /\ prog.lines = <<LReply, LReply>>

\* C17: a streaming child whose last stdout line has no newline, with lines
\* in UTF-8, no I/O failure and a sink that accepts: the call returns Ok(())
\* after waiting for the child, and the last line is delivered like the
\* others when it is well-formed.
C17_PartialLastLine ==
    (StreamReturned /\ prog.unterminated /\ NoFault /\ AllUtf8(prog.lines)) =>
        /\ ret = OkUnit /\ child = "reaped"
        /\ CarriesAll(emitted, SelectSeq(prog.lines, WellFormedLine))

C17_Witness ==
    /\ StreamReturned /\ prog.unterminated /\ ret = OkUnit
    /\ prog.lines = <<LContent, LDone>> /\ Len(emitted) = 2

\* What call i has put on the window, oldest first.
UnitsFrom(i) ==
    LET mine == SelectSeq(window, LAMBDA e : e.from = i)
    IN [k \in 1..Len(mine) |-> mine[k].chunk]

\* The lines call i has taken, and those of them that were handled.
ConcTaken(i) == SubSeq(invs[i].lines, 1, invs[i].taken)
ConcHandled(i) ==
    IF invs[i].pc = "decode" \/ invs[i].ret \in {"StreamReadError", "SinkDeliveryError"}
    THEN SubSeq(invs[i].lines, 1, invs[i].taken - 1)
    ELSE ConcTaken(i)

\* C15: with two streaming calls overlapping in any way, each call takes its
\* lines from its own child only, in the order written, and what it has put
\* on the window is one unit for each well-formed line it has handled, in
\* that order, whatever the other call does; a call that returns Ok(()) has
\* delivered all the well-formed lines of its child.
C15_IndependentInvocations ==
    \A i \in Procs :
        /\ invs[i].taken <= invs[i].pos
        /\ invs[i].taken + Len(pipes[i]) = invs[i].pos
        /\ pipes[i] = SubSeq(invs[i].lines, invs[i].taken + 1, invs[i].pos)
        /\ invs[i].pc = "decode" => invs[i].cur = LineText(invs[i].lines[invs[i].taken])
        /\ CarriesAll(UnitsFrom(i), SelectSeq(ConcHandled(i), WellFormedLine))
        /\ invs[i].ret = "unit" =>
              CarriesAll(UnitsFrom(i), SelectSeq(invs[i].lines, WellFormedLine))

C15_Witness ==
    /\ invs[1].ret = "unit" /\ invs[2].ret = "unit"
    /\ invs[1].lines = <<LContent, LDone>> /\ invs[2].lines = <<LDone, LContent>>
    /\ Len(window) = 4
    /\ window[1].from = 1 /\ window[2].from = 2
    /\ window[3].from = 2 /\ window[4].from = 1

====
